---- MODULE Spec2Model ----
(***************************************************************************)
(* A model of the med_notes program: utils.py (validation, transcription,  *)
(* template loading, note generation, saving), main.py (the CLI command)   *)
(* and gui.py (the main window and its two worker threads).                *)
(*                                                                         *)
(* Strings are sequences of tokens: a token is a piece of text that the    *)
(* code's string operations never split ("\n", "---", "content:",          *)
(* "{{TRANSCRIPT}}", a word).  Timestamps written into artifacts are left  *)
(* out of the file contents.                                               *)
(***************************************************************************)
EXTENDS Integers, Sequences, FiniteSets, TLC

VARIABLES
    fs,        \* output files: path -> content, Absent when the file does not exist
    template,  \* content of templates/prompt.txt (a token string), Absent when missing
    environ,   \* os.environ: OPENAI_API_KEY and GPT_MODEL; and the key utils.client holds
    call,      \* the last call made to a function of utils.py, with its result
    ncalls,    \* number of utils calls and template edits made so far
    audio_dir, \* the files directly inside audio_recordings/
    cli,       \* the CLI process (main.py)
    gui,       \* MainWindow fields and widget states (gui.py)
    workers,   \* the QThread workers started so far, in order of creation
    queue      \* signals emitted by workers, queued for the main thread

vars == <<fs, template, environ, call, ncalls, audio_dir, cli, gui, workers, queue>>


(***************************************************************************)
(* Bounds of the model.                                                    *)
(***************************************************************************)
MaxCalls == 2
MaxWorkers == 3

(***************************************************************************)
(* Strings.                                                                *)
(***************************************************************************)
NL == "\n"
BR == "<br>"
PLACEHOLDER == "{{TRANSCRIPT}}"

RECURSIVE ReplaceTok(_, _, _)
\* str.replace(old, new) for a single-token old and a token-string new
ReplaceTok(s, old, new) ==
    IF s = <<>> THEN <<>>
    ELSE (IF Head(s) = old THEN new ELSE <<Head(s)>>) \o ReplaceTok(Tail(s), old, new)

Contains(s, tok) == \E i \in 1..Len(s) : s[i] = tok

\* the transcripts the remote speech-to-text service may return
Texts == { <<>>, <<"Hello world">>, <<"line1", NL, "line2">> }

\* the note texts the remote completion service may return
NoteTexts == { <<"S: pain">>, <<"S: pain", NL, "O: none">> }

(***************************************************************************)
(* Values.                                                                 *)
(***************************************************************************)
Absent == [kind |-> "absent"]
NoValue == [kind |-> "none"]                       \* Python None
Str(s) == [kind |-> "str", s |-> s]                \* a str
Pair(a, b) == [kind |-> "tuple", a |-> a, b |-> b] \* a 2-tuple
Exc(type, msg) == [type |-> type, msg |-> msg]     \* a raised exception
NoExc == Exc("none", "")

Return(value, files, log) ==
    [outcome |-> "return", value |-> value, exc |-> NoExc, fs |-> files, log |-> log]
Raise(exc, files, log) ==
    [outcome |-> "raise", value |-> NoValue, exc |-> exc, fs |-> files, log |-> log]

(***************************************************************************)
(* Files.  An audio file is a reference to a path with the attributes the  *)
(* code reads; an output artifact is a path under transcriptions/ or       *)
(* case_notes/.                                                            *)
(***************************************************************************)
Stems == {"a", "b"}
Suffixes == {".mp3", ".MP3", ".wav", ".txt"}
Names == [stem : Stems, suffix : Suffixes]

MB == 1024 * 1024
MAX_AUDIO_SIZE == 100 * 1024 * 1024
GUI_MAX_SIZE == 25 * 1024 * 1024
Sizes == {1000, GUI_MAX_SIZE, GUI_MAX_SIZE + 1, MAX_AUDIO_SIZE, MAX_AUDIO_SIZE + 1}

AudioFiles ==
    [name : Names, exists : BOOLEAN, is_file : BOOLEAN, size : Sizes, readable : BOOLEAN]

\* str.lower() on a suffix
Lower(sfx) == IF sfx = ".MP3" THEN ".mp3" ELSE sfx

valid_extensions ==
    {".mp3", ".wav", ".m4a", ".ogg", ".flac", ".aac", ".wma", ".aiff", ".alac", ".opus", ".webm"}

TRANSCRIPTIONS_DIR == "transcriptions"
CASE_NOTES_DIR == "case_notes"

RawPath(stem) == <<TRANSCRIPTIONS_DIR, stem, "_raw.txt">>
HtmlPath(stem) == <<TRANSCRIPTIONS_DIR, stem, "_formatted.html">>
NotesRawPath(stem) == <<CASE_NOTES_DIR, stem, "_notes_raw.txt">>
NotesHtmlPath(stem) == <<CASE_NOTES_DIR, stem, "_notes_formatted.html">>
NotesMdPath(stem) == <<CASE_NOTES_DIR, stem, "_notes.md">>

TranscriptPaths == {RawPath(s) : s \in Stems} \cup {HtmlPath(s) : s \in Stems}
NotePaths ==
    {NotesRawPath(s) : s \in Stems} \cup {NotesHtmlPath(s) : s \in Stems}
        \cup {NotesMdPath(s) : s \in Stems}
Paths == TranscriptPaths \cup NotePaths

EmptyFs == [p \in Paths |-> Absent]

\* open(path, "w") ... f.write(content)
WriteFile(files, path, content) == [files EXCEPT ![path] = content]

\* what a write to an output file may do: succeed; fail in open() with a
\* PermissionError, the file untouched; fail with an OSError in write() or close(),
\* after open(path, "w") has created or emptied the file
WriteOutcomes == {"ok", "PermissionError", "OSError"}

\* the content of a file whose write failed: empty, or some prefix of the content
Partial == [kind |-> "partial"]

FailedWrite(files, path, outcome) ==
    IF outcome = "OSError" THEN WriteFile(files, path, Partial) ELSE files

(***************************************************************************)
(* utils.validate_audio_file                                               *)
(***************************************************************************)
validate_audio_file_CapExclusive(f) ==
    IF ~f.exists THEN Exc("FileNotFoundError", "not_found")
    ELSE IF ~f.is_file THEN Exc("ValueError", "not_a_file")
    ELSE IF f.size >= MAX_AUDIO_SIZE THEN Exc("ValueError", "too_large")
    ELSE IF Lower(f.name.suffix) \notin valid_extensions
         THEN Exc("ValueError", "invalid_format")
    ELSE NoExc

\* lines 63-77
validate_audio_file(f) ==
    IF ~f.exists THEN Exc("FileNotFoundError", "not_found")
    ELSE IF ~f.is_file THEN Exc("ValueError", "not_a_file")
    ELSE IF f.size > MAX_AUDIO_SIZE THEN Exc("ValueError", "too_large")
    ELSE IF Lower(f.name.suffix) \notin valid_extensions
         THEN Exc("ValueError", "invalid_format")
    ELSE NoExc

(***************************************************************************)
(* utils.transcribe_audio.  resp is what the remote speech-to-text call    *)
(* does, wr what the two file writes do.  The function is given in two     *)
(* parts, split where the remote call is in flight, so that a worker       *)
(* thread can be stopped between them.                                     *)
(***************************************************************************)
Failure == [ok |-> FALSE, text |-> <<>>]
Responses(texts) == [ok : {TRUE}, text : texts] \cup {Failure}

WriteChoices == [raw : WriteOutcomes, html : WriteOutcomes]

TranscriptHtml(f, transcript) ==
    [kind |-> "transcript_html", body |-> ReplaceTok(transcript, NL, <<BR>>),
     file |-> f.name]

\* the raw file given the HTML line breaks
RawContent_AsHtml(transcript) == Str(ReplaceTok(transcript, NL, <<BR>>))

\* lines 140-143: what is written to <stem>_raw.txt
RawContent(transcript) == Str(transcript)

\* lines 126-132: validation and opening the file; the exception raised, or NoExc
\* when the remote call is submitted
transcribe_audio_submit(f) ==
    IF validate_audio_file(f) # NoExc THEN validate_audio_file(f)
    ELSE IF ~f.readable THEN Exc("PermissionError", "open")
    ELSE NoExc

\* the events of lines 126-137 up to and including the remote call
SubmitLog(f) ==
    IF validate_audio_file(f) # NoExc THEN <<"validate">>
    ELSE IF ~f.readable THEN <<"validate", "open">>
    ELSE <<"validate", "open", "whisper">>

\* the raw file opened for writing before the remote call: a failed call leaves it empty
transcribe_audio_complete_OpenFirst(files, f, resp, wr) ==
    LET log0 == SubmitLog(f)
        fs0 == WriteFile(files, RawPath(f.name.stem), Str(<<>>))
    IN
    IF ~resp.ok THEN Raise(Exc("OpenAIError", "whisper"), fs0, log0)
    ELSE IF wr.raw # "ok" THEN Raise(Exc(wr.raw, "raw_write"), fs0, log0)
    ELSE LET fs1 == WriteFile(files, RawPath(f.name.stem), Str(resp.text))
             log1 == log0 \o <<"write_raw">>
         IN  IF wr.html # "ok" THEN Raise(Exc(wr.html, "html_write"), fs1, log1)
             ELSE Return(Str(resp.text),
                         WriteFile(fs1, HtmlPath(f.name.stem), TranscriptHtml(f, resp.text)),
                         log1 \o <<"write_html">>)

\* lines 133-245 once the call is in flight: the response, the two writes, the return
transcribe_audio_complete(files, f, resp, wr) ==
    LET log0 == SubmitLog(f) IN
    IF ~resp.ok THEN Raise(Exc("OpenAIError", "whisper"), files, log0)
    ELSE IF wr.raw # "ok"
         THEN Raise(Exc(wr.raw, "raw_write"),
                    FailedWrite(files, RawPath(f.name.stem), wr.raw), log0)
    ELSE LET fs1 == WriteFile(files, RawPath(f.name.stem), RawContent(resp.text))
             log1 == log0 \o <<"write_raw">>
         IN  IF wr.html # "ok"
             THEN Raise(Exc(wr.html, "html_write"),
                        FailedWrite(fs1, HtmlPath(f.name.stem), wr.html), log1)
             ELSE Return(Str(resp.text),
                         WriteFile(fs1, HtmlPath(f.name.stem), TranscriptHtml(f, resp.text)),
                         log1 \o <<"write_html">>)

transcribe_audio(files, f, resp, wr) ==
    IF transcribe_audio_submit(f) # NoExc
    THEN Raise(transcribe_audio_submit(f), files, SubmitLog(f))
    ELSE transcribe_audio_complete(files, f, resp, wr)

(***************************************************************************)
(* utils.load_template                                                     *)
(***************************************************************************)
FENCE == "---"
CONTENT_KEY == "content:"
SP == " "
Whitespace == {SP, NL}

\* index of the first occurrence of tok in s, 0 when there is none
IndexOf(s, tok) ==
    IF Contains(s, tok) THEN CHOOSE i \in 1..Len(s) :
                                 s[i] = tok /\ \A j \in 1..(i - 1) : s[j] # tok
    ELSE 0

RECURSIVE LStrip(_)
LStrip(s) == IF s # <<>> /\ Head(s) \in Whitespace THEN LStrip(Tail(s)) ELSE s

RECURSIVE RStrip(_)
RStrip(s) ==
    IF s # <<>> /\ s[Len(s)] \in Whitespace THEN RStrip(SubSeq(s, 1, Len(s) - 1)) ELSE s

\* str.strip()
Strip(s) == RStrip(LStrip(s))

RECURSIVE SplitLines(_)
\* str.split("\n")
SplitLines(s) ==
    IF ~Contains(s, NL) THEN <<s>>
    ELSE <<SubSeq(s, 1, IndexOf(s, NL) - 1)>>
             \o SplitLines(SubSeq(s, IndexOf(s, NL) + 1, Len(s)))

\* str.replace(tok, "", 1)
RemoveFirst(s, tok) ==
    IF ~Contains(s, tok) THEN s
    ELSE SubSeq(s, 1, IndexOf(s, tok) - 1) \o SubSeq(s, IndexOf(s, tok) + 1, Len(s))

\* str.split("---", 2): at most three parts
SplitFence2(s) ==
    IF ~Contains(s, FENCE) THEN <<s>>
    ELSE LET i == IndexOf(s, FENCE)
             rest == SubSeq(s, i + 1, Len(s))
         IN  IF ~Contains(rest, FENCE) THEN <<SubSeq(s, 1, i - 1), rest>>
             ELSE <<SubSeq(s, 1, i - 1),
                    SubSeq(rest, 1, IndexOf(rest, FENCE) - 1),
                    SubSeq(rest, IndexOf(rest, FENCE) + 1, Len(rest))>>

RECURSIVE SystemContentOf(_, _)
\* lines 267-272: the last line starting with "content:" gives the system content
SystemContentOf(lines, acc) ==
    IF lines = <<>> THEN acc
    ELSE LET line == Head(lines) IN
         SystemContentOf(Tail(lines),
                         IF line # <<>> /\ Head(line) = CONTENT_KEY
                         THEN Strip(RemoveFirst(line, CONTENT_KEY))
                         ELSE acc)

DEFAULT_SYSTEM ==
    <<"You are a helpful assistant that creates clear summaries of transcripts.">>

Template(system, user) == [kind |-> "template", system_content |-> system, user_template |-> user]

\* the value load_template returns for a template file that exists
ParseTemplate(content) ==
    IF content # <<>> /\ Head(content) = FENCE /\ Len(SplitFence2(content)) >= 3
    THEN Template(SystemContentOf(SplitLines(Strip(SplitFence2(content)[2])), <<>>),
                  Strip(SplitFence2(content)[3]))
    ELSE Template(DEFAULT_SYSTEM, content)

load_template_DefaultIfAbsent(tplfile) ==
    IF tplfile = Absent THEN Return(Template(DEFAULT_SYSTEM, <<>>), EmptyFs, <<"load_template">>)
    ELSE Return(ParseTemplate(tplfile.s), EmptyFs, <<"load_template">>)
load_template(tplfile) ==
    IF tplfile = Absent THEN Raise(Exc("FileNotFoundError", "template"), EmptyFs, <<"load_template">>)
    ELSE Return(ParseTemplate(tplfile.s), EmptyFs, <<"load_template">>)

(***************************************************************************)
(* utils.generate_case_notes                                               *)
(***************************************************************************)
PROMPT_PREFIX ==
    <<"Please analyze the following transcript and generate structured medical notes:",
      NL, NL>>

DEFAULT_MODEL == "gpt-3.5-turbo"
Models == {"gpt-3.5-turbo", "gpt-4", "gpt-4-turbo"}

\* os.getenv("GPT_MODEL", "gpt-3.5-turbo")
GetModel(env) == IF env.GPT_MODEL = "" THEN DEFAULT_MODEL ELSE env.GPT_MODEL

\* lines 303-306: the messages of the completion request
BuildMessages(tpl, transcript) ==
    [system |-> tpl.system_content, user |-> PROMPT_PREFIX \o transcript]

\* lines 312-317: the completion request
ChatRequest(tpl, env, transcript) ==
    [model |-> GetModel(env), messages |-> BuildMessages(tpl, transcript), max_tokens |-> 2000]

NotesHtml(notes, model) ==
    [kind |-> "notes_html", body |-> ReplaceTok(notes, NL, <<BR>>), model |-> model]

\* transcript is the token string passed in; resp what the remote completion call does
generate_case_notes(files, tplfile, env, transcript, resp) ==
    IF load_template(tplfile).outcome = "raise"
    THEN Raise(load_template(tplfile).exc, files, <<"load_template">>)
    ELSE IF ~resp.ok THEN Raise(Exc("OpenAIError", "chat"), files, <<"load_template", "chat">>)
    ELSE Return(Pair(Str(resp.text), NotesHtml(resp.text, GetModel(env))),
                files, <<"load_template", "chat">>)

(***************************************************************************)
(* utils.save_case_notes                                                   *)
(***************************************************************************)
NoteWriteChoices == [raw : WriteOutcomes, html : WriteOutcomes, md : WriteOutcomes]

NotesMd(notes, model) == [kind |-> "notes_md", body |-> notes, model |-> model]

save_case_notes_RollBack(files, audio_stem, notes, html_content, env, wr) ==
    IF wr.raw # "ok" THEN Raise(Exc(wr.raw, "notes_raw_write"), files, <<>>)
    ELSE IF wr.html # "ok" THEN Raise(Exc(wr.html, "notes_html_write"), files, <<"write_notes_raw">>)
    ELSE IF wr.md # "ok"
         THEN Raise(Exc(wr.md, "notes_md_write"), files, <<"write_notes_raw", "write_notes_html">>)
    ELSE Return([kind |-> "path", p |-> NotesHtmlPath(audio_stem)],
                WriteFile(WriteFile(WriteFile(files, NotesRawPath(audio_stem), notes),
                                    NotesHtmlPath(audio_stem), html_content),
                          NotesMdPath(audio_stem), NotesMd(notes.s, GetModel(env))),
                <<"write_notes_raw", "write_notes_html", "write_notes_md">>)
save_case_notes(files, audio_stem, notes, html_content, env, wr) ==
    IF wr.raw # "ok"
    THEN Raise(Exc(wr.raw, "notes_raw_write"),
               FailedWrite(files, NotesRawPath(audio_stem), wr.raw), <<>>)
    ELSE LET fs1 == WriteFile(files, NotesRawPath(audio_stem), notes) IN
         IF wr.html # "ok"
         THEN Raise(Exc(wr.html, "notes_html_write"),
                    FailedWrite(fs1, NotesHtmlPath(audio_stem), wr.html), <<"write_notes_raw">>)
         ELSE LET fs2 == WriteFile(fs1, NotesHtmlPath(audio_stem), html_content) IN
              IF wr.md # "ok"
              THEN Raise(Exc(wr.md, "notes_md_write"),
                         FailedWrite(fs2, NotesMdPath(audio_stem), wr.md),
                         <<"write_notes_raw", "write_notes_html">>)
              ELSE Return([kind |-> "path", p |-> NotesHtmlPath(audio_stem)],
                          WriteFile(fs2, NotesMdPath(audio_stem),
                                    NotesMd(notes.s, GetModel(env))),
                          <<"write_notes_raw", "write_notes_html", "write_notes_md">>)

\* utils.display_markdown: rich's Markdown parses a str and rejects anything else
display_markdown(content) ==
    IF content.kind = "str" THEN NoExc ELSE Exc("TypeError", "markdown_input")

(***************************************************************************)
(* utils.list_audio_files.  A directory is a set of audio files with       *)
(* distinct names; the glob patterns are matched as on a case-sensitive    *)
(* file system.                                                            *)
(***************************************************************************)
audio_formats == valid_extensions

StemRank(stem) == IF stem = "a" THEN 1 ELSE IF stem = "b" THEN 2 ELSE 3
SuffixRank(sfx) ==
    IF sfx = ".MP3" THEN 1 ELSE IF sfx = ".flac" THEN 2 ELSE IF sfx = ".mp3" THEN 3
    ELSE IF sfx = ".txt" THEN 4 ELSE 5

\* the order of sorted() on paths of one directory
NameLess(m, n) ==
    \/ StemRank(m.stem) < StemRank(n.stem)
    \/ m.stem = n.stem /\ SuffixRank(m.suffix) < SuffixRank(n.suffix)

RECURSIVE Sorted(_)
Sorted(S) ==
    IF S = {} THEN <<>>
    ELSE LET least == CHOOSE f \in S : \A g \in S \ {f} : NameLess(f.name, g.name)
         IN  <<least>> \o Sorted(S \ {least})

\* lines 111-116: Path.glob("*.ext") for each format, on a file system that tells
\* upper case from lower case.  glob yields every entry of the directory whose name
\* matches, a subdirectory as well as a regular file.
list_audio_files(dir) ==
    Sorted({f \in dir : f.exists /\ f.name.suffix \in audio_formats})


(***************************************************************************)
(* Inputs.                                                                 *)
(***************************************************************************)
\* gui.py 190-194: the file TemplateDialog.save_template writes for system prompt S
SavedTemplate(S) ==
    <<FENCE, NL, "role: system", NL, CONTENT_KEY, SP>> \o S \o <<NL, FENCE, NL, NL>>
        \o PROMPT_PREFIX \o <<PLACEHOLDER>>

TemplateFiles ==
    { Str(<<FENCE, NL, "role: system", NL, CONTENT_KEY, SP, "You are an assistant.", NL,
            FENCE, NL, NL, "Analyze: ", PLACEHOLDER>>),
      Str(SavedTemplate(<<"You are a scribe.">>)),
      Str(<<"Analyze: ", PLACEHOLDER>>),
      Str(<<FENCE, NL, CONTENT_KEY, SP, "unterminated">>) }

\* the attribute combinations of an audio path that the checks tell apart
Cond(exists, is_file, size, readable) ==
    [exists |-> exists, is_file |-> is_file, size |-> size, readable |-> readable]

FileConds ==
    { Cond(TRUE, TRUE, sz, TRUE) : sz \in Sizes }
        \cup { Cond(FALSE, FALSE, 1000, FALSE), Cond(TRUE, FALSE, 1000, TRUE),
               Cond(TRUE, TRUE, 1000, FALSE) }

Name(stem, suffix) == [stem |-> stem, suffix |-> suffix]

File(name, c) ==
    [name |-> name, exists |-> c.exists, is_file |-> c.is_file, size |-> c.size,
     readable |-> c.readable]

\* the audio files the utils functions are called on
UtilFiles ==
    { File(Name("a", ".mp3"), Cond(TRUE, TRUE, 1000, TRUE)),
      File(Name("a", ".wav"), Cond(TRUE, TRUE, MAX_AUDIO_SIZE, TRUE)),
      File(Name("b", ".MP3"), Cond(TRUE, TRUE, GUI_MAX_SIZE + 1, TRUE)),
      File(Name("b", ".wav"), Cond(TRUE, TRUE, MAX_AUDIO_SIZE + 1, TRUE)),
      File(Name("a", ".txt"), Cond(TRUE, TRUE, 1000, TRUE)),
      File(Name("a", ".mp3"), Cond(FALSE, FALSE, 1000, FALSE)),
      File(Name("a", ".mp3"), Cond(TRUE, FALSE, 1000, TRUE)),
      File(Name("b", ".wav"), Cond(TRUE, TRUE, 1000, FALSE)) }

AllOk == [raw |-> "ok", html |-> "ok"]
UtilWriteChoices ==
    { AllOk, [raw |-> "OSError", html |-> "ok"], [raw |-> "ok", html |-> "OSError"] }

AllOk3 == [raw |-> "ok", html |-> "ok", md |-> "ok"]
UtilNoteWriteChoices ==
    { AllOk3, [AllOk3 EXCEPT !.raw = "OSError"], [AllOk3 EXCEPT !.html = "OSError"],
      [AllOk3 EXCEPT !.md = "OSError"] }

\* utils.py 52-58: the process as it is when utils has been imported.  client is the
\* key that openai.OpenAI(api_key=...) was given, "" when the import failed; a
\* variable of os.environ that is not set is "".
StartEnviron(key, model) == [OPENAI_API_KEY |-> key, GPT_MODEL |-> model, client |-> key]
Environs == { StartEnviron(k, m) : k \in {"", "sk-1"}, m \in {"", "gpt-4"} }

\* os.getenv("OPENAI_API_KEY") is truthy
HasKey(env) == env.OPENAI_API_KEY # ""

NoCall == [fn |-> "none"]
NoCli == [pc |-> "off"]
NoGui == [pc |-> "off"]

(***************************************************************************)
(* Calls of the utils functions, one at a time, on a file system that      *)
(* persists between the calls.  call.before is the file system when the    *)
(* call was made.                                                          *)
(***************************************************************************)
UtilInit ==
    /\ fs = EmptyFs
    /\ template \in TemplateFiles \cup {Absent}
    /\ environ = StartEnviron("sk-1", "")
    /\ call = NoCall
    /\ ncalls = 0
    /\ audio_dir = {}
    /\ cli = NoCli
    /\ gui = NoGui
    /\ workers = <<>>
    /\ queue = <<>>

UtilFrame == UNCHANGED <<template, environ, audio_dir, cli, gui, workers, queue>>

CallTranscribeAudio ==
    /\ ncalls < MaxCalls
    /\ \E f \in UtilFiles, resp \in Responses(Texts), wr \in UtilWriteChoices,
             local \in Responses(Texts) :
          LET res == transcribe_audio(fs, f, resp, wr) IN
          \* an input the call never reads is left at its first value
          /\ transcribe_audio_submit(f) # NoExc => resp = Failure
          /\ ~resp.ok => wr = AllOk
          /\ (transcribe_audio_submit(f) # NoExc \/ resp.ok) => local = Failure
          \* local is what a local speech-to-text capability would do with f
          /\ call' = [fn |-> "transcribe_audio", file |-> f, resp |-> resp, wr |-> wr,
                      local |-> local, before |-> fs, res |-> res]
          /\ fs' = res.fs
    /\ ncalls' = ncalls + 1
    /\ UtilFrame

CallGenerateCaseNotes ==
    /\ ncalls < MaxCalls
    /\ \E t \in Texts, resp \in Responses(NoteTexts) :
          LET res == generate_case_notes(fs, template, environ, t, resp) IN
          /\ template = Absent => resp = Failure
          /\ call' = [fn |-> "generate_case_notes", transcript |-> t, resp |-> resp,
                      template |-> template, before |-> fs, res |-> res,
                      request |-> IF template = Absent THEN NoValue
                                  ELSE ChatRequest(ParseTemplate(template.s), environ, t)]
          /\ fs' = res.fs
    /\ ncalls' = ncalls + 1
    /\ UtilFrame

CallSaveCaseNotes ==
    /\ ncalls < MaxCalls
    /\ \E stem \in Stems, n \in NoteTexts, wr \in UtilNoteWriteChoices :
          LET html == NotesHtml(n, GetModel(environ))
              res == save_case_notes(fs, stem, Str(n), html, environ, wr)
          IN  /\ call' = [fn |-> "save_case_notes", stem |-> stem, notes |-> n, wr |-> wr,
                          before |-> fs, res |-> res]
              /\ fs' = res.fs
    /\ ncalls' = ncalls + 1
    /\ UtilFrame

\* the system prompts the user types into TemplateDialog
Prompts ==
    { <<SP>>,
      <<"Be brief.">>,
      <<"Be brief.", NL, "Use SOAP.">>,
      <<"Use ", FENCE, " as a rule.">>,
      <<"Be brief.", NL, CONTENT_KEY, SP, "plain text">> }

\* gui.py 180-203: TemplateDialog.save_template with the Save button pressed
save_template ==
    /\ ncalls < MaxCalls
    /\ \E S \in Prompts :
          LET system_content == Strip(S) IN
          /\ template' = IF system_content = <<>> THEN template
                         ELSE Str(SavedTemplate(system_content))
          /\ call' = [fn |-> "save_template", prompt |-> system_content, before |-> fs,
                      res |-> Return(NoValue, fs, <<>>)]
    /\ ncalls' = ncalls + 1
    /\ UNCHANGED <<fs, environ, audio_dir, cli, gui, workers, queue>>

\* saved is the prompt TemplateDialog wrote, when the call before this one did so
CallLoadTemplate ==
    /\ ncalls < MaxCalls
    /\ call' = [fn |-> "load_template", template |-> template, before |-> fs,
                saved |-> IF /\ call.fn = "save_template" /\ call.prompt # <<>>
                             /\ template = Str(SavedTemplate(call.prompt))
                          THEN Str(call.prompt) ELSE NoValue,
                res |-> load_template(template)]
    /\ ncalls' = ncalls + 1
    /\ UNCHANGED fs
    /\ UtilFrame

\* the user edits or removes templates/prompt.txt between calls
EditTemplate ==
    /\ ncalls < MaxCalls
    /\ \E t \in TemplateFiles \cup {Absent} : t # template /\ template' = t
    /\ ncalls' = ncalls + 1
    /\ UNCHANGED <<fs, environ, call, audio_dir, cli, gui, workers, queue>>

UtilNext ==
    \/ CallTranscribeAudio
    \/ CallGenerateCaseNotes
    \/ CallSaveCaseNotes
    \/ CallLoadTemplate
    \/ EditTemplate
    \/ save_template

UtilSpec == UtilInit /\ [][UtilNext]_vars

(***************************************************************************)
(* main.py: the CLI process, from the import of utils to its exit.         *)
(***************************************************************************)
CliDirs ==
    { {},
      {File(Name("a", ".mp3"), Cond(TRUE, TRUE, 1000, TRUE))},
      {File(Name("b", ".wav"), Cond(TRUE, TRUE, GUI_MAX_SIZE + 1, TRUE)),
       File(Name("a", ".mp3"), Cond(TRUE, TRUE, 1000, TRUE)),
       File(Name("a", ".txt"), Cond(TRUE, TRUE, 1000, TRUE))} }

\* the paths given as the audio_file argument
CliArgFiles ==
    { File(Name("a", ".mp3"), Cond(TRUE, TRUE, 1000, TRUE)),
      File(Name("b", ".MP3"), Cond(TRUE, TRUE, GUI_MAX_SIZE + 1, TRUE)),
      File(Name("a", ".mp3"), Cond(FALSE, FALSE, 1000, FALSE)),
      File(Name("b", ".txt"), Cond(TRUE, TRUE, 1000, TRUE)),
      File(Name("b", ".wav"), Cond(TRUE, TRUE, 1000, FALSE)) }

Selections == -1 .. 4

CliInit ==
    /\ fs = EmptyFs
    /\ template \in {Str(SavedTemplate(<<"You are a scribe.">>)), Absent}
    /\ environ \in Environs
    /\ call = NoCall
    /\ ncalls = 0
    /\ audio_dir \in CliDirs
    /\ cli = [pc |-> "start"]
    /\ gui = NoGui
    /\ workers = <<>>
    /\ queue = <<>>

CliExit(code, stage) == [pc |-> "done", exit |-> code, stage |-> stage]
CliGo(f, how, save, display) ==
    [pc |-> "process", audio_path |-> f, how |-> how, save |-> save, display |-> display]

\* line 103: audio_files[selection - 1], a Python list index
PyIndex(seq, i) ==
    IF i >= 0 /\ i < Len(seq) THEN <<seq[i + 1]>>
    ELSE IF i < 0 /\ i >= 0 - Len(seq) THEN <<seq[Len(seq) + i + 1]>>
    ELSE <<>>

\* lines 15 and 47-106: importing utils, the --list flag, and finding the audio file.
\* arg is <<>> when no audio_file is given, sel the number typed at the prompt.
CliResolve(env, dir, arg, list_files, save, display, sel) ==
    IF ~HasKey(env) THEN CliExit(1, "import")
    ELSE IF list_files THEN CliExit(0, "list")
    ELSE IF arg # <<>>
    THEN IF arg[1].exists THEN CliGo(arg[1], "argument", save, display)
         ELSE IF \E g \in dir : g.name = arg[1].name
              THEN CliGo(CHOOSE g \in dir : g.name = arg[1].name, "argument", save, display)
              ELSE CliExit(1, "not_found")
    ELSE IF list_audio_files(dir) = <<>> THEN CliExit(1, "no_files")
    ELSE IF PyIndex(list_audio_files(dir), sel - 1) = <<>> THEN CliExit(1, "invalid_selection")
    ELSE CliGo(PyIndex(list_audio_files(dir), sel - 1)[1], "prompt", save, display)

CliStart ==
    /\ cli.pc = "start"
    /\ \E arg \in {<<>>} \cup {<<f>> : f \in CliArgFiles}, list_files \in BOOLEAN,
          save \in BOOLEAN, display \in BOOLEAN, sel \in Selections :
          \* an input the command never reads is left at its first value
          /\ (list_files \/ ~HasKey(environ)) => arg = <<>> /\ save /\ display
          /\ (list_files \/ ~HasKey(environ) \/ arg # <<>>) => sel = 1
          /\ cli' = CliResolve(environ, audio_dir, arg, list_files, save, display, sel)
                       @@ [sel |-> sel, list_files |-> list_files]
    /\ UNCHANGED <<fs, template, environ, call, ncalls, audio_dir, gui, workers, queue>>

\* line 127: save_case_notes called with the positional arguments args
PySaveCaseNotes(files, args, env, wr) ==
    IF Len(args) # 3 THEN Raise(Exc("TypeError", "missing_argument"), files, <<>>)
    ELSE save_case_notes(files, args[1], args[2], args[3], env, wr)

\* line 127: the arguments the command passes
CliSaveArgs(f, case_notes) == <<f.name.stem, case_notes>>

CliDone(code, stage, files) == [exit |-> code, stage |-> stage, fs |-> files]

\* lines 111-135: the try block and its handler
CliTry(files, f, tpl, env, save, display, resp, wr, chat, nwr) ==
    LET t == transcribe_audio(files, f, resp, wr) IN
    IF t.outcome = "raise" THEN CliDone(1, "transcribe", t.fs)
    ELSE LET g == generate_case_notes(t.fs, tpl, env, t.value.s, chat) IN
         IF g.outcome = "raise" THEN CliDone(1, "generate", g.fs)
         ELSE IF display /\ display_markdown(g.value) # NoExc
              THEN CliDone(1, "display", g.fs)
         ELSE IF ~save THEN CliDone(0, "complete", g.fs)
         ELSE LET sv == PySaveCaseNotes(g.fs, CliSaveArgs(f, g.value), env, nwr) IN
              IF sv.outcome = "raise" THEN CliDone(1, "save", sv.fs)
              ELSE CliDone(0, "complete", sv.fs)

CliProcess ==
    /\ cli.pc = "process"
    /\ \E resp \in Responses(Texts), wr \in UtilWriteChoices,
          chat \in Responses(NoteTexts), nwr \in UtilNoteWriteChoices :
          LET r == CliTry(fs, cli.audio_path, template, environ, cli.save, cli.display,
                          resp, wr, chat, nwr)
          IN  /\ transcribe_audio_submit(cli.audio_path) # NoExc => resp = Failure
              /\ ~resp.ok => wr = AllOk
              /\ r.stage = "transcribe" => chat = Failure
              /\ r.stage \in {"transcribe", "generate", "display"} => nwr = AllOk3
              /\ cli' = [cli EXCEPT !.pc = "done"]
                           @@ [exit |-> r.exit, stage |-> r.stage, resp |-> resp, wr |-> wr,
                               chat |-> chat, nwr |-> nwr]
              /\ fs' = r.fs
    /\ UNCHANGED <<template, environ, call, ncalls, audio_dir, gui, workers, queue>>

CliNext == CliStart \/ CliProcess

CliSpec == CliInit /\ [][CliNext]_vars

(***************************************************************************)
(* gui.py: exceptions inside a worker's run().  An except clause names a   *)
(* class by an expression that is evaluated when the clause is reached; a  *)
(* name that the module never bound makes that evaluation raise NameError, *)
(* which leaves run() uncaught.                                            *)
(***************************************************************************)
\* lines 1-56: the names gui.py binds at module level that the except clauses use
GuiGlobals == {"sys", "os", "Path", "shutil", "logging", "FileNotFoundError", "ValueError",
               "PermissionError", "ConnectionError", "Exception"}

\* the module a handler expression reads, "" for a builtin
HandlerModule(h) == IF h = "openai.OpenAIError" THEN "openai" ELSE ""
HandlerClass(h) == IF h = "openai.OpenAIError" THEN "OpenAIError" ELSE h

\* Python's class hierarchy for the exceptions that occur
IsInstance(type, class) ==
    \/ type = class
    \/ class = "Exception"
    \/ class = "OSError" /\ type \in {"FileNotFoundError", "PermissionError", "ConnectionError"}

RECURSIVE Dispatch(_, _, _)
\* the except clauses of a try statement, in order
Dispatch(handlers, globals, type) ==
    IF handlers = <<>> THEN [caught |-> FALSE, by |-> "", exc |-> type]
    ELSE IF HandlerModule(Head(handlers)) # "" /\ HandlerModule(Head(handlers)) \notin globals
         THEN [caught |-> FALSE, by |-> "", exc |-> "NameError"]
    ELSE IF IsInstance(type, HandlerClass(Head(handlers)))
         THEN [caught |-> TRUE, by |-> Head(handlers), exc |-> type]
    ELSE Dispatch(Tail(handlers), globals, type)

\* lines 257-268
TranscriptionHandlers ==
    <<"FileNotFoundError", "ValueError", "PermissionError", "ConnectionError",
      "openai.OpenAIError", "Exception">>

\* lines 323-330
NotesHandlers == <<"ValueError", "ConnectionError", "openai.OpenAIError", "Exception">>

(***************************************************************************)
(* gui.py: the worker threads.  A worker is a record; workers holds every  *)
(* worker started, in order.  emitted and log are the signals it emitted   *)
(* and the things it did, in order; credential is the key its remote call  *)
(* was made with, configured the key in os.environ when run() read it,     *)
(* failed_check the check of run() that raised, if one did, probe what the *)
(* reachability probe found ("none" before it is made).  transcript is     *)
(* what a NotesWorker was given, and what a TranscriptionWorker's finished *)
(* signal carried.  cancelled says that cancel_operation stopped it.       *)
(***************************************************************************)
\* In the window's specification a worker draws one input for each kind of end a
\* run can have: a result, an error signal, an exception that leaves run().
GuiConds == { Cond(TRUE, TRUE, 1000, TRUE), Cond(FALSE, FALSE, 1000, FALSE) }
GuiTexts == { <<>>, <<"Hello world">> }
GuiNoteTexts == { <<"S: pain">> }

Worker(kind, file, transcript, stem, src) ==
    [kind |-> kind, pc |-> "ready", running |-> TRUE, file |-> file,
     transcript |-> transcript, stem |-> stem, src |-> src,
     notes |-> NoValue, html |-> NoValue, model |-> "",
     credential |-> "", configured |-> "", failed_check |-> "", probe |-> "none",
     emitted |-> <<>>, log |-> <<>>, exc |-> "none", stopped_inflight |-> FALSE,
     cancelled |-> FALSE]

\* QThread.isRunning(): a thread that has emitted finished or error is still
\* running until run() has returned
isRunning(w) == w.pc \notin {"done", "crashed"}

StopRequested_Never(w) == FALSE
\* lines 251, 309, 317: if not self._is_running: return
StopRequested(w) == ~w.running

Signal(i, sig, arg) == [w |-> i, sig |-> sig, arg |-> arg]

WorkerRaise_Retry(w, handlers, type, log) ==
    [w EXCEPT !.pc = "ready", !.exc = type, !.log = log]
\* an exception of this type raised at this point of run(): the handlers, then finally
WorkerRaise(w, handlers, type, log) ==
    LET d == Dispatch(handlers, GuiGlobals, type) IN
    [w EXCEPT !.pc = IF d.caught THEN "exiting" ELSE "crashed",
              !.running = FALSE,
              !.exc = type,
              !.log = log,
              !.emitted = IF d.caught THEN @ \o <<"error">> ELSE @]

WorkerReturn(w, log, signals) ==
    [w EXCEPT !.pc = IF signals = <<>> THEN "done" ELSE "exiting",
              !.running = FALSE, !.log = log, !.emitted = @ \o signals]

\* the queue entries for the finished and error signals a step emitted
Queued(i, before, after, arg) ==
    SelectSeq([k \in 1..(Len(after.emitted) - Len(before.emitted)) |->
                  Signal(i, after.emitted[Len(before.emitted) + k], arg)],
              LAMBDA m : m.sig \in {"finished", "error"})

\* an exception that leaves run() is fatal to the process (PyQt calls qFatal)
AfterWorkerStep(i, after, arg) ==
    /\ workers' = [workers EXCEPT ![i] = after]
    /\ queue' = queue \o Queued(i, workers[i], after, arg)
    /\ gui' = IF after.pc = "crashed" THEN [gui EXCEPT !.pc = "aborted"] ELSE gui

TranscriptionPrecheck_KeyUnchecked(env, f) ==
    IF ~f.exists THEN Exc("FileNotFoundError", "not_found")
    ELSE IF f.size > GUI_MAX_SIZE THEN Exc("ValueError", "too_large")
    ELSE IF Lower(f.name.suffix) \notin valid_extensions THEN Exc("ValueError", "invalid_format")
    ELSE IF ~f.readable THEN Exc("PermissionError", "unreadable")
    ELSE NoExc
\* lines 217-237: the checks of TranscriptionWorker.run before any progress is reported
TranscriptionPrecheck(env, f) ==
    IF ~HasKey(env) THEN Exc("ValueError", "no_api_key")
    ELSE IF ~f.exists THEN Exc("FileNotFoundError", "not_found")
    ELSE IF f.size > GUI_MAX_SIZE THEN Exc("ValueError", "too_large")
    ELSE IF Lower(f.name.suffix) \notin valid_extensions THEN Exc("ValueError", "invalid_format")
    ELSE IF ~f.readable THEN Exc("PermissionError", "unreadable")
    ELSE NoExc

\* lines 215-249, up to the remote call being in flight.  c is the state of the
\* audio path on disk when the thread runs, online what the reachability probe finds.
TranscriptionBegin(w, env, c, online) ==
    LET f == File(w.file.name, c)
        pre == TranscriptionPrecheck(env, f)
        w0 == [w EXCEPT !.file = f, !.configured = env.OPENAI_API_KEY]
        w30 == [w0 EXCEPT !.emitted = @ \o <<"progress30">>,
                          !.probe = IF online THEN "ok" ELSE "failed"]
    IN  IF pre # NoExc THEN WorkerRaise([w0 EXCEPT !.failed_check = pre.msg],
                                        TranscriptionHandlers, pre.type, <<"precheck">>)
        ELSE IF ~online THEN WorkerRaise(w30, TranscriptionHandlers, "ConnectionError",
                                         <<"precheck", "probe">>)
        ELSE IF transcribe_audio_submit(f) # NoExc
             THEN WorkerRaise(w30, TranscriptionHandlers, transcribe_audio_submit(f).type,
                              <<"precheck", "probe">> \o SubmitLog(f))
        ELSE [w30 EXCEPT !.pc = "inflight", !.log = <<"precheck", "probe">> \o SubmitLog(f),
                         !.credential = env.client]

\* lines 249-270, from the remote call's answer to the end of run()
TranscriptionComplete(w, r) ==
    LET log == <<"precheck", "probe">> \o r.log IN
    IF r.outcome = "raise" THEN WorkerRaise(w, TranscriptionHandlers, r.exc.type, log)
    ELSE IF StopRequested(w) THEN WorkerReturn(w, log, <<>>)
    ELSE WorkerReturn([w EXCEPT !.transcript = r.value], log, <<"progress100", "finished">>)

NotesBegin_ProbeIgnored(w, env, online, tplfile) ==
    LET w0 == [w EXCEPT !.configured = env.OPENAI_API_KEY]
        w30 == [w0 EXCEPT !.emitted = @ \o <<"progress30">>,
                          !.probe = IF online THEN "ok" ELSE "failed"]
    IN
    IF w.transcript.kind # "str" \/ w.transcript.s = <<>>
    THEN WorkerRaise([w0 EXCEPT !.failed_check = "invalid_transcript"], NotesHandlers,
                     "ValueError", <<"precheck">>)
    ELSE IF ~HasKey(env) THEN WorkerRaise([w0 EXCEPT !.failed_check = "no_api_key"], NotesHandlers,
                                          "ValueError", <<"precheck">>)
    ELSE IF load_template(tplfile).outcome = "raise"
         THEN WorkerRaise(w30, NotesHandlers, load_template(tplfile).exc.type,
                          <<"precheck", "probe", "load_template">>)
    ELSE [w30 EXCEPT !.pc = "inflight", !.log = <<"precheck", "probe", "load_template", "chat">>,
                     !.model = GetModel(env), !.credential = env.client]
\* lines 287-307, up to the completion call being in flight
NotesBegin(w, env, online, tplfile) ==
    LET w0 == [w EXCEPT !.configured = env.OPENAI_API_KEY]
        w30 == [w0 EXCEPT !.emitted = @ \o <<"progress30">>, !.probe = "ok"]
    IN
    IF w.transcript.kind # "str" \/ w.transcript.s = <<>>
    THEN WorkerRaise([w0 EXCEPT !.failed_check = "invalid_transcript"], NotesHandlers,
                     "ValueError", <<"precheck">>)
    ELSE IF ~HasKey(env) THEN WorkerRaise([w0 EXCEPT !.failed_check = "no_api_key"], NotesHandlers,
                                          "ValueError", <<"precheck">>)
    ELSE IF ~online THEN WorkerRaise([w0 EXCEPT !.probe = "failed"], NotesHandlers,
                                     "ConnectionError", <<"precheck", "probe">>)
    ELSE IF load_template(tplfile).outcome = "raise"
         THEN WorkerRaise(w30, NotesHandlers, load_template(tplfile).exc.type,
                          <<"precheck", "probe", "load_template">>)
    ELSE [w30 EXCEPT !.pc = "inflight", !.log = <<"precheck", "probe", "load_template", "chat">>,
                     !.model = GetModel(env), !.credential = env.client]

\* lines 307-312, from the completion call's answer to the start of saving
NotesComplete(w, resp) ==
    IF ~resp.ok THEN WorkerRaise(w, NotesHandlers, "OpenAIError", w.log)
    ELSE IF StopRequested(w) THEN WorkerReturn(w, w.log, <<>>)
    ELSE [w EXCEPT !.pc = "saving", !.notes = Str(resp.text),
                   !.html = NotesHtml(resp.text, w.model),
                   !.emitted = @ \o <<"progress60">>]

NotesSave_HundredFirst(w, r) ==
    LET log == w.log \o r.log
        w100 == [w EXCEPT !.emitted = @ \o <<"progress100">>]
    IN
    IF r.outcome = "raise" THEN WorkerRaise(w100, NotesHandlers, r.exc.type, log)
    ELSE IF StopRequested(w) THEN WorkerReturn(w100, log, <<>>)
    ELSE WorkerReturn(w100, log, <<"finished">>)
\* lines 315-332, from save_case_notes to the end of run()
NotesSave(w, r) ==
    LET log == w.log \o r.log IN
    IF r.outcome = "raise" THEN WorkerRaise(w, NotesHandlers, r.exc.type, log)
    ELSE IF StopRequested(w) THEN WorkerReturn(w, log, <<>>)
    ELSE WorkerReturn(w, log, <<"progress100", "finished">>)

Alive == gui.pc # "aborted"

\* The steps of a worker thread.  The sets are the inputs a step draws from: the
\* states of the audio path, the probe's answers, the remote answers, the write
\* outcomes.
TranscriptionWorkerBegin(i, conds, onlines) ==
    /\ Alive
    /\ workers[i].kind = "T" /\ workers[i].pc = "ready"
    /\ \E c \in conds, online \in onlines :
          /\ TranscriptionPrecheck(environ, File(workers[i].file.name, c)) # NoExc
                => \A o \in onlines : o => online
          /\ AfterWorkerStep(i, TranscriptionBegin(workers[i], environ, c, online), NoValue)
    /\ UNCHANGED <<fs, template, environ, call, ncalls, audio_dir, cli>>

TranscriptionWorkerComplete(i, resps, writes) ==
    /\ Alive
    /\ workers[i].kind = "T" /\ workers[i].pc = "inflight"
    /\ \E resp \in resps, wr \in writes :
          LET r == transcribe_audio_complete(fs, workers[i].file, resp, wr) IN
          /\ ~resp.ok => wr = AllOk
          /\ fs' = r.fs
          /\ AfterWorkerStep(i, TranscriptionComplete(workers[i], r), r.value)
    /\ UNCHANGED <<template, environ, call, ncalls, audio_dir, cli>>

NotesWorkerBegin(i, onlines, tplfiles) ==
    /\ Alive
    /\ workers[i].kind = "N" /\ workers[i].pc = "ready"
    /\ \E online \in onlines, tplfile \in tplfiles :
          /\ ~online => tplfile = template
          /\ AfterWorkerStep(i, NotesBegin(workers[i], environ, online, tplfile), NoValue)
    /\ UNCHANGED <<fs, template, environ, call, ncalls, audio_dir, cli>>

NotesWorkerComplete(i, resps) ==
    /\ Alive
    /\ workers[i].kind = "N" /\ workers[i].pc = "inflight"
    /\ \E resp \in resps :
          AfterWorkerStep(i, NotesComplete(workers[i], resp), NoValue)
    /\ UNCHANGED <<fs, template, environ, call, ncalls, audio_dir, cli>>

NotesWorkerSave(i, writes) ==
    /\ Alive
    /\ workers[i].kind = "N" /\ workers[i].pc = "saving"
    /\ \E wr \in writes :
          LET r == save_case_notes(fs, workers[i].stem, workers[i].notes, workers[i].html,
                                   environ, wr)
          IN  /\ fs' = r.fs
              /\ AfterWorkerStep(i, NotesSave(workers[i], r), workers[i].html)
    /\ UNCHANGED <<template, environ, call, ncalls, audio_dir, cli>>

\* run() returns after its last signal and the thread ends
WorkerExit(i) ==
    /\ Alive
    /\ workers[i].pc = "exiting"
    /\ workers' = [workers EXCEPT ![i].pc = "done"]
    /\ UNCHANGED <<fs, template, environ, call, ncalls, audio_dir, cli, gui, queue>>

(***************************************************************************)
(* gui.py: MainWindow.  Slots run on the main thread, one at a time; a     *)
(* slot that calls QThread.wait() blocks the main thread until the worker  *)
(* has finished, and gui.pc says where it is blocked.  Message boxes are   *)
(* answered at once.  The progress signals only move the progress bar and  *)
(* set the status text; their delivery is left out, and status is the last *)
(* text set by another slot.  The progress bar is visible exactly when the *)
(* Cancel button is enabled and has no field of its own; the text views    *)
(* show what current_transcript and the note files hold.  transcript_src   *)
(* and cancelled_run record history: the worker that produced              *)
(* current_transcript, and the transcription run that was cancelled        *)
(* between its end and the start of note generation.                       *)
(***************************************************************************)
\* the audio directory when the window opens
GuiDir == { File(Name("a", ".mp3"), Cond(TRUE, TRUE, 1000, TRUE)) }


\* the files the user picks in the upload dialog
UploadFiles ==
    { File(Name("b", ".wav"), Cond(TRUE, TRUE, GUI_MAX_SIZE, TRUE)),
      File(Name("b", ".wav"), Cond(TRUE, TRUE, GUI_MAX_SIZE + 1, TRUE)) }

\* lines 637-642: the names refresh_file_list puts into the list widget
ItemNames(dir) == [k \in 1..Len(list_audio_files(dir)) |-> list_audio_files(dir)[k].name]

InSeq(x, seq) == \E k \in 1..Len(seq) : seq[k] = x

\* lines 344-348, 415-425, 439-442, 576
MainWindow(dir) ==
    [pc |-> "idle",
     current_transcript |-> NoValue, current_audio_path |-> NoValue,
     transcribe_worker |-> 0, notes_worker |-> 0,
     items |-> ItemNames(dir), selected |-> NoValue,
     transcribe_button |-> FALSE, generate_button |-> FALSE, cancel_button |-> FALSE,
     status |-> "Found files", transcript_src |-> 0, cancelled_run |-> 0]

GuiInit ==
    /\ fs = EmptyFs
    /\ template = Str(SavedTemplate(<<"You are a scribe.">>))
    /\ environ = StartEnviron("sk-1", "")
    /\ call = NoCall
    /\ ncalls = 0
    /\ audio_dir = GuiDir
    /\ cli = NoCli
    /\ gui = MainWindow(audio_dir)
    /\ workers = <<>>
    /\ queue = <<>>

GuiFrame == UNCHANGED <<fs, template, environ, call, ncalls, cli>>
Idle == gui.pc = "idle"

\* lines 644-649
on_file_selected(g, n) ==
    [g EXCEPT !.selected = n, !.transcribe_button = TRUE, !.generate_button = FALSE,
              !.current_transcript = NoValue, !.transcript_src = 0,
              !.status = "Selected"]

ClickItem ==
    /\ Idle
    /\ \E k \in 1..Len(gui.items) : gui' = on_file_selected(gui, gui.items[k])
    /\ UNCHANGED <<audio_dir, workers, queue>>
    /\ GuiFrame

\* lines 651-717; overwrite is the answer to the "File Exists" question
upload_file ==
    /\ Idle
    /\ \E f \in UploadFiles, overwrite \in BOOLEAN :
          LET dir == {g \in audio_dir : g.name # f.name} \cup {f}
              listed == InSeq(f.name, ItemNames(dir))
          IN  /\ (\A g \in audio_dir : g.name # f.name) => overwrite
              /\ IF f.size > GUI_MAX_SIZE \/ ~overwrite
                 THEN UNCHANGED <<audio_dir, gui>>
                 ELSE /\ audio_dir' = dir
                      /\ gui' = [gui EXCEPT !.items = ItemNames(dir),
                                            !.status = "Found files",
                                            !.selected = IF listed THEN f.name ELSE NoValue,
                                            !.current_audio_path =
                                                IF listed THEN f.name ELSE @]
    /\ UNCHANGED <<workers, queue>>
    /\ GuiFrame

\* lines 637-642
refresh_file_list ==
    /\ Idle
    /\ gui' = [gui EXCEPT !.items = ItemNames(audio_dir), !.selected = NoValue,
                          !.status = "Found files"]
    /\ UNCHANGED <<audio_dir, workers, queue>>
    /\ GuiFrame

\* lines 272-274, 334-336
Stop(w) == [w EXCEPT !.running = FALSE, !.stopped_inflight = @ \/ w.pc = "inflight"]

Running(i) == i # 0 /\ isRunning(workers[i])

\* lines 731-743
StartTranscription(g) ==
    /\ gui' = [g EXCEPT !.pc = "idle", !.transcribe_button = FALSE, !.generate_button = FALSE,
                        !.cancel_button = TRUE, !.transcribe_worker = Len(workers) + 1]
    /\ workers' = Append(workers,
                         Worker("T", [name |-> g.current_audio_path], NoValue, "", 0))

\* lines 719-748
transcribe_file ==
    /\ Idle
    /\ gui.transcribe_button
    /\ Len(workers) < MaxWorkers
    /\ IF gui.current_audio_path = NoValue THEN UNCHANGED <<gui, workers>>
       ELSE IF Running(gui.transcribe_worker)
            THEN /\ workers' = [workers EXCEPT ![gui.transcribe_worker] = Stop(@)]
                 /\ gui' = [gui EXCEPT !.pc = "transcribe_file_wait"]
       ELSE StartTranscription(gui)
    /\ UNCHANGED <<audio_dir, queue>>
    /\ GuiFrame

\* line 729: wait() returns
transcribe_file_resume ==
    /\ gui.pc = "transcribe_file_wait"
    /\ ~Running(gui.transcribe_worker)
    /\ StartTranscription(gui)
    /\ UNCHANGED <<audio_dir, queue>>
    /\ GuiFrame

\* lines 816-837
StartNotes(g) ==
    IF g.selected = NoValue
    THEN /\ gui' = [g EXCEPT !.pc = "idle"]
         /\ UNCHANGED workers
    ELSE /\ gui' = [g EXCEPT !.pc = "idle", !.transcribe_button = FALSE,
                             !.generate_button = FALSE, !.cancel_button = TRUE,
                             !.notes_worker = Len(workers) + 1]
         /\ workers' = Append(workers,
                              Worker("N", NoValue, g.current_transcript, g.selected.stem,
                                     g.transcript_src))

generate_notes_Unguarded ==
    /\ Idle
    /\ gui.generate_button
    /\ Len(workers) < MaxWorkers
    /\ IF Running(gui.notes_worker)
       THEN /\ workers' = [workers EXCEPT ![gui.notes_worker] = Stop(@)]
            /\ gui' = [gui EXCEPT !.pc = "generate_notes_wait"]
       ELSE StartNotes(gui)
    /\ UNCHANGED <<audio_dir, queue>>
    /\ GuiFrame
\* lines 804-842
generate_notes ==
    /\ Idle
    /\ gui.generate_button
    /\ Len(workers) < MaxWorkers
    /\ IF gui.current_transcript = NoValue \/ gui.current_transcript = Str(<<>>)
       THEN UNCHANGED <<gui, workers>>
       ELSE IF Running(gui.notes_worker)
            THEN /\ workers' = [workers EXCEPT ![gui.notes_worker] = Stop(@)]
                 /\ gui' = [gui EXCEPT !.pc = "generate_notes_wait"]
       ELSE StartNotes(gui)
    /\ UNCHANGED <<audio_dir, queue>>
    /\ GuiFrame

\* line 814: wait() returns
generate_notes_resume ==
    /\ gui.pc = "generate_notes_wait"
    /\ ~Running(gui.notes_worker)
    /\ StartNotes(gui)
    /\ UNCHANGED <<audio_dir, queue>>
    /\ GuiFrame

\* lines 922-926
ResetUi(g) ==
    [g EXCEPT !.pc = "idle", !.transcribe_button = TRUE,
              !.generate_button = TRUE, !.cancel_button = FALSE]

\* lines 917-926: the notes worker's turn in cancel_operation
CancelNotes(g) ==
    IF Running(g.notes_worker)
    THEN /\ workers' = [workers EXCEPT ![g.notes_worker] = [Stop(@) EXCEPT !.cancelled = TRUE]]
         /\ gui' = [g EXCEPT !.pc = "cancel_wait_notes"]
    ELSE /\ gui' = ResetUi(g)
         /\ UNCHANGED workers

\* the transcription stage has ended with a transcript and no note generation
\* has been started after it
BetweenStages ==
    /\ gui.transcribe_worker # 0
    /\ InSeq("finished", workers[gui.transcribe_worker].emitted)
    /\ gui.notes_worker < gui.transcribe_worker

\* lines 909-930
cancel_operation ==
    /\ Idle
    /\ gui.cancel_button
    /\ LET g == [gui EXCEPT !.cancelled_run =
                     IF BetweenStages THEN gui.transcribe_worker ELSE @]
       IN  IF Running(gui.transcribe_worker)
           THEN /\ workers' = [workers EXCEPT ![gui.transcribe_worker] =
                                                [Stop(@) EXCEPT !.cancelled = TRUE]]
                /\ gui' = [g EXCEPT !.pc = "cancel_wait_transcription"]
           ELSE CancelNotes(g)
    /\ UNCHANGED <<audio_dir, queue>>
    /\ GuiFrame

\* line 914: wait() returns
cancel_resume_transcription ==
    /\ gui.pc = "cancel_wait_transcription"
    /\ ~Running(gui.transcribe_worker)
    /\ CancelNotes([gui EXCEPT !.status = "Transcription cancelled"])
    /\ UNCHANGED <<audio_dir, queue>>
    /\ GuiFrame

\* line 919: wait() returns
cancel_resume_notes ==
    /\ gui.pc = "cancel_wait_notes"
    /\ ~Running(gui.notes_worker)
    /\ gui' = ResetUi([gui EXCEPT !.status = "Notes generation cancelled"])
    /\ UNCHANGED <<audio_dir, workers, queue>>
    /\ GuiFrame

\* lines 750-802
transcription_finished(g, i, transcript) ==
    [g EXCEPT !.current_transcript = transcript, !.transcript_src = i,
              !.transcribe_button = TRUE,
              !.generate_button = TRUE, !.cancel_button = FALSE,
              !.status = "Transcription complete"]

\* lines 844-858
notes_finished(g, i) ==
    [g EXCEPT !.transcribe_button = TRUE,
              !.generate_button = TRUE, !.cancel_button = FALSE,
              !.status = "Notes generated"]

\* lines 860-886
process_error(g) ==
    [g EXCEPT !.transcribe_button = TRUE,
              !.generate_button = TRUE, !.cancel_button = FALSE]

\* the main thread's event loop delivers the oldest queued signal to its slot
HandleSignal ==
    /\ Idle
    /\ queue # <<>>
    /\ LET m == Head(queue) IN
       gui' = IF m.sig = "error" THEN process_error(gui)
              ELSE IF workers[m.w].kind = "T" THEN transcription_finished(gui, m.w, m.arg)
              ELSE notes_finished(gui, m.w)
    /\ queue' = Tail(queue)
    /\ UNCHANGED <<audio_dir, workers>>
    /\ GuiFrame

WorkerStep ==
    \E i \in 1..Len(workers) :
        \/ TranscriptionWorkerBegin(i, GuiConds, {TRUE})
        \/ TranscriptionWorkerComplete(i, Responses(GuiTexts), {AllOk})
        \/ NotesWorkerBegin(i, BOOLEAN, {template})
        \/ NotesWorkerComplete(i, Responses(GuiNoteTexts))
        \/ NotesWorkerSave(i, {AllOk3})
        \/ WorkerExit(i)

GuiNext ==
    \/ ClickItem
    \/ upload_file
    \/ refresh_file_list
    \/ transcribe_file
    \/ transcribe_file_resume
    \/ generate_notes
    \/ generate_notes_resume
    \/ cancel_operation
    \/ cancel_resume_transcription
    \/ cancel_resume_notes
    \/ HandleSignal
    \/ WorkerStep

GuiSpec == GuiInit /\ [][GuiNext]_vars

(***************************************************************************)
(* One worker thread on its own, with every input its run() reads, and     *)
(* the main thread calling stop() on it or changing the API settings at    *)
(* any moment.  run() reads the environment when it executes.              *)
(***************************************************************************)
WorkerInit ==
    /\ fs = EmptyFs
    /\ template = Str(SavedTemplate(<<"You are a scribe.">>))
    /\ environ \in Environs
    /\ call = NoCall
    /\ ncalls = 0
    /\ audio_dir = GuiDir
    /\ cli = NoCli
    /\ gui = MainWindow(audio_dir)
    /\ workers \in { <<Worker("T", [name |-> n], NoValue, "", 0)>> :
                        n \in {Name("a", ".mp3"), Name("b", ".txt")} }
                   \cup { <<Worker("N", NoValue, Str(t), "a", 0)>> : t \in GuiTexts }
    /\ queue = <<>>

StopWorker ==
    /\ Alive
    /\ \E i \in 1..Len(workers) :
          /\ workers[i].running
          /\ workers' = [workers EXCEPT ![i] = Stop(@)]
    /\ UNCHANGED <<fs, template, environ, call, ncalls, audio_dir, cli, gui, queue>>

\* ApiKeyDialog: the keys and models the user can enter (an empty key changes nothing)
DialogKeys == {"sk-1", "sk-2"}
DialogModels == {DEFAULT_MODEL, "gpt-4"}

\* gui.py 611-621, with the dialog accepted: .env is rewritten and loaded over
\* os.environ; utils.client is left as it is
set_api_key ==
    /\ Alive
    /\ environ.client # ""
    /\ \E key \in DialogKeys, model \in DialogModels :
          environ' = [environ EXCEPT !.OPENAI_API_KEY = key, !.GPT_MODEL = model]
    /\ gui' = [gui EXCEPT !.status = "API settings updated successfully"]
    /\ UNCHANGED <<fs, template, call, ncalls, audio_dir, cli, workers, queue>>

RunStep ==
    \E i \in 1..Len(workers) :
        \/ TranscriptionWorkerBegin(i, FileConds, BOOLEAN)
        \/ TranscriptionWorkerComplete(i, Responses(Texts), WriteChoices)
        \/ NotesWorkerBegin(i, BOOLEAN, {template, Absent})
        \/ NotesWorkerComplete(i, Responses(NoteTexts))
        \/ NotesWorkerSave(i, NoteWriteChoices)
        \/ WorkerExit(i)

WorkerNext == RunStep \/ StopWorker \/ set_api_key

WorkerSpec == WorkerInit /\ [][WorkerNext]_vars

(***************************************************************************)
(* The places that validate an audio path, each applied once to one path:  *)
(* utils.validate_audio_file, utils.transcribe_audio and the run() of a    *)
(* TranscriptionWorker up to its remote call, and utils.list_audio_files   *)
(* applied to the directory.  audio_dir holds the path or the directory.   *)
(* utils can only be called in a process that imported it, which needs the *)
(* credential; run() reads the environment when it executes.               *)
(***************************************************************************)
ValidateFiles == { File(n, c) : n \in Names, c \in FileConds }

\* the contents of audio_recordings/ that list_audio_files is applied to
ListDirs ==
    { {},
      { File(Name("b", ".wav"), Cond(TRUE, TRUE, 1000, TRUE)),
        File(Name("a", ".mp3"), Cond(TRUE, TRUE, 1000, TRUE)),
        File(Name("c", ".flac"), Cond(TRUE, TRUE, 1000, TRUE)) },
      { File(Name("b", ".wav"), Cond(TRUE, TRUE, 1000, TRUE)),
        File(Name("a", ".txt"), Cond(TRUE, TRUE, 1000, TRUE)),
        File(Name("a", ".MP3"), Cond(TRUE, TRUE, 1000, TRUE)),
        File(Name("a", ".mp3"), Cond(TRUE, TRUE, MAX_AUDIO_SIZE + 1, FALSE)) },
      { File(Name("a", ".mp3"), Cond(TRUE, TRUE, 1000, TRUE)),
        File(Name("b", ".wav"), Cond(TRUE, FALSE, 1000, TRUE)) } }

ValidateInit ==
    /\ fs = EmptyFs
    /\ template = Str(SavedTemplate(<<"You are a scribe.">>))
    /\ environ \in { StartEnviron(k, "") : k \in {"", "sk-1"} }
    /\ call = NoCall
    /\ ncalls = 0
    /\ audio_dir \in { {f} : f \in ValidateFiles } \cup ListDirs
    /\ cli = NoCli
    /\ gui = NoGui
    /\ workers = <<>>
    /\ queue = <<>>

ValidateFrame == UNCHANGED <<template, environ, audio_dir, cli, gui, workers, queue>>

ApplyValidateAudioFile ==
    /\ call = NoCall
    /\ HasKey(environ)
    /\ \E f \in audio_dir :
          call' = [fn |-> "validate_audio_file", file |-> f, before |-> fs,
                   res |-> IF validate_audio_file(f) = NoExc
                           THEN Return(NoValue, fs, <<"validate">>)
                           ELSE Raise(validate_audio_file(f), fs, <<"validate">>)]
    /\ ncalls' = ncalls + 1
    /\ UNCHANGED fs
    /\ ValidateFrame

ApplyTranscribeAudio ==
    /\ call = NoCall
    /\ HasKey(environ)
    /\ \E f \in audio_dir, resp \in Responses(Texts), wr \in UtilWriteChoices :
          LET res == transcribe_audio(fs, f, resp, wr) IN
          /\ transcribe_audio_submit(f) # NoExc => resp = Failure
          /\ ~resp.ok => wr = AllOk
          /\ call' = [fn |-> "transcribe_audio", file |-> f, resp |-> resp, wr |-> wr,
                      before |-> fs, res |-> res]
          /\ fs' = res.fs
    /\ ncalls' = ncalls + 1
    /\ ValidateFrame

\* res is the worker when its remote call is in flight or its run() has ended,
\* pre the exception raised by the checks of lines 217-237
ApplyTranscriptionWorker ==
    /\ call = NoCall
    /\ \E f \in audio_dir, online \in BOOLEAN :
          LET c == Cond(f.exists, f.is_file, f.size, f.readable)
              w == Worker("T", [name |-> f.name], NoValue, "", 0)
          IN  /\ TranscriptionPrecheck(environ, f) # NoExc => online
              /\ call' = [fn |-> "TranscriptionWorker.run", file |-> f, online |-> online,
                          before |-> fs, pre |-> TranscriptionPrecheck(environ, f),
                          res |-> TranscriptionBegin(w, environ, c, online)]
    /\ ncalls' = ncalls + 1
    /\ UNCHANGED fs
    /\ ValidateFrame

ApplyListAudioFiles ==
    /\ call = NoCall
    /\ HasKey(environ)
    /\ call' = [fn |-> "list_audio_files", before |-> fs, res |-> list_audio_files(audio_dir)]
    /\ ncalls' = ncalls + 1
    /\ UNCHANGED fs
    /\ ValidateFrame

ValidateNext ==
    \/ ApplyValidateAudioFile
    \/ ApplyTranscribeAudio
    \/ ApplyTranscriptionWorker
    \/ ApplyListAudioFiles

ValidateSpec == ValidateInit /\ [][ValidateNext]_vars

(***************************************************************************)
(* Properties of the utils functions, checked under UtilSpec.              *)
(***************************************************************************)
Count(log, ev) == Cardinality({i \in DOMAIN log : log[i] = ev})

\* the last call was transcribe_audio and its remote call was submitted
RemoteSubmitted ==
    call.fn = "transcribe_audio" /\ transcribe_audio_submit(call.file) = NoExc
RemoteRaised == RemoteSubmitted /\ ~call.resp.ok
RemoteReturned == RemoteSubmitted /\ call.resp.ok

\* C1: whenever the remote speech-to-text call of transcribe_audio raises, the
\* local fallback capability is invoked exactly once, and when that capability
\* succeeds its text is returned and no error reaches the caller.
C1_FallbackOnRemoteError ==
    RemoteRaised =>
        /\ Count(call.res.log, "local_fallback") = 1
        /\ call.local.ok =>
              call.res.outcome = "return" /\ call.res.value = Str(call.local.text)

\* C2: when the remote call fails (the code has no second provider, so nothing
\* else is tried), transcribe_audio raises the service error to its caller and
\* leaves every transcript file, raw and HTML, as it was before the call.
C2_FailureWritesNothing ==
    RemoteRaised =>
        /\ call.res.outcome = "raise"
        /\ call.res.exc.type = "OpenAIError"
        /\ \A p \in TranscriptPaths : fs[p] = call.before[p]

\* C2 witness: the remote call failed while an earlier transcript of the same
\* stem was on disk.
C2_Witness ==
    /\ RemoteRaised
    /\ call.res.outcome = "raise"
    /\ call.before[RawPath(call.file.name.stem)] # Absent

\* C3: when the remote call returns text T for a valid audio file and the two
\* transcript writes succeed, transcribe_audio has written T to the raw
\* transcript file and its HTML rendering to the HTML file before its return,
\* and returns T unchanged; a failing write makes it raise instead of return.
C3_TranscriptPersistedAndReturned ==
    RemoteReturned =>
        IF call.wr = AllOk
        THEN /\ call.res.outcome = "return"
             /\ call.res.value = Str(call.resp.text)
             /\ fs[RawPath(call.file.name.stem)] = Str(call.resp.text)
             /\ fs[HtmlPath(call.file.name.stem)].body
                   = ReplaceTok(call.resp.text, NL, <<BR>>)
             /\ call.res.log = <<"validate", "open", "whisper", "write_raw", "write_html">>
        ELSE /\ call.res.outcome = "raise"
             /\ call.res.exc.msg \in {"raw_write", "html_write"}

\* C3 witness: a transcript of two lines was returned and persisted.
C3_Witness ==
    /\ RemoteReturned
    /\ call.wr = AllOk
    /\ call.res.outcome = "return"
    /\ Contains(call.resp.text, NL)
    /\ fs[RawPath(call.file.name.stem)] = Str(call.resp.text)

\* C4: for a loaded template with system content S and a user body U holding
\* the placeholder, the completion request built by generate_case_notes has
\* system message S and user message U with the placeholder replaced by the
\* transcript.
C4_UserMessageFromTemplate ==
    (/\ call.fn = "generate_case_notes"
     /\ call.template # Absent
     /\ Contains(ParseTemplate(call.template.s).user_template, PLACEHOLDER))
    => /\ call.request.messages.system = ParseTemplate(call.template.s).system_content
       /\ call.request.messages.user
             = ReplaceTok(ParseTemplate(call.template.s).user_template, PLACEHOLDER,
                          call.transcript)

(***************************************************************************)
(* Properties of the CLI command, checked under CliSpec.                   *)
(***************************************************************************)
\* the command processed a file that passes validation, with both remote
\* services answering, the template present and every write succeeding
CliAllSucceeds ==
    /\ cli.pc = "done"
    /\ cli.stage \notin {"import", "list", "not_found", "no_files", "invalid_selection"}
    /\ transcribe_audio_submit(cli.audio_path) = NoExc
    /\ cli.resp.ok /\ cli.chat.ok
    /\ cli.wr = AllOk /\ cli.nwr = AllOk3
    /\ template # Absent

\* C10: given an existing valid audio file, with both remote services
\* succeeding, the transcribe command exits with code 0 for every combination
\* of the display and save flags, and with save on it has written the
\* case-note files; on a validation or processing failure it exits with 1.
C10_ExitCodes ==
    /\ CliAllSucceeds =>
          /\ cli.exit = 0
          /\ cli.save => \A p \in {NotesRawPath(cli.audio_path.name.stem),
                                   NotesHtmlPath(cli.audio_path.name.stem),
                                   NotesMdPath(cli.audio_path.name.stem)} : fs[p] # Absent
    /\ (cli.pc = "done" /\ cli.stage \in {"import", "not_found", "no_files",
                                          "invalid_selection", "transcribe", "generate"})
          => cli.exit = 1

(***************************************************************************)
(* Properties of one worker thread, checked under WorkerSpec.              *)
(***************************************************************************)
Ended(w) == w.pc \in {"exiting", "done", "crashed"}

\* C6: a worker on which stop() was called while its remote call was in flight
\* lets the call run to completion or failure, and afterwards emits neither
\* progress 100 nor finished, so that no finished signal of it reaches the window.
C6_StoppedInFlightNeverFinishes ==
    \A i \in 1..Len(workers) :
        workers[i].stopped_inflight =>
            /\ ~InSeq("progress100", workers[i].emitted)
            /\ ~InSeq("finished", workers[i].emitted)
            /\ \A k \in 1..Len(queue) : queue[k].w = i => queue[k].sig # "finished"
            /\ (workers[i].kind = "T" /\ Ended(workers[i]) /\ workers[i].exc = "none")
                  => InSeq("whisper", workers[i].log)

\* a transcription worker stopped in flight whose call then succeeded, and whose
\* run() returned without a signal
C6_Witness ==
    \E i \in 1..Len(workers) :
        /\ workers[i].kind = "T"
        /\ workers[i].stopped_inflight
        /\ workers[i].pc = "done"
        /\ workers[i].exc = "none"
        /\ InSeq("whisper", workers[i].log)
        /\ workers[i].emitted = <<"progress30">>

\* C7: a stage cancelled while its remote call was in flight writes no file: no
\* transcript file for a transcription, no note file for a note generation.
C7_CancelledStageWritesNothing ==
    \A i \in 1..Len(workers) :
        workers[i].stopped_inflight => \A p \in Paths : fs[p] = Absent

\* C9: every failure raised inside run() of either worker results in exactly one
\* emission of the error signal and none of finished.
C9_FailureEmitsErrorOnce ==
    \A i \in 1..Len(workers) :
        (Ended(workers[i]) /\ workers[i].exc # "none") =>
            /\ Count(workers[i].emitted, "error") = 1
            /\ ~InSeq("finished", workers[i].emitted)

(***************************************************************************)
(* Properties of the main window, checked under GuiSpec.                   *)
(***************************************************************************)
\* run() of the worker has work left to do
Busy(w) == w.pc \in {"ready", "inflight", "saving"}

\* C5: when Cancel is requested after the transcription stage has ended and before
\* note generation has started, the run never becomes complete and no note
\* artifact is written for it.
C5_CancelBetweenStagesEndsRun ==
    gui.cancelled_run # 0 =>
        \A i \in 1..Len(workers) :
            (workers[i].kind = "N" /\ workers[i].src = gui.cancelled_run) =>
                /\ ~InSeq("write_notes_raw", workers[i].log)
                /\ ~InSeq("finished", workers[i].emitted)

\* C8: at every moment at most one background worker, of either kind, is running.
C8_AtMostOneWorkerRunning ==
    Cardinality({i \in 1..Len(workers) : Busy(workers[i])}) <= 1

(***************************************************************************)
(* Properties of path validation, checked under ValidateSpec.              *)
(***************************************************************************)
Validated == call # NoCall /\ call.fn = "validate_audio_file"

\* C11: for every existing regular file whose extension is not in the allow-list,
\* whatever its size, validate_audio_file fails with the invalid-format error, with
\* no remote call made and no file written.
C11_InvalidFormatWhateverSize ==
    (/\ Validated
     /\ call.file.exists /\ call.file.is_file
     /\ Lower(call.file.name.suffix) \notin valid_extensions)
        => /\ call.res.outcome = "raise"
           /\ call.res.exc = Exc("ValueError", "invalid_format")
           /\ fs = call.before
           /\ ~InSeq("whisper", call.res.log)

WorkerApplied == call # NoCall /\ call.fn = "TranscriptionWorker.run"
TranscribeApplied == call # NoCall /\ call.fn = "transcribe_audio"

\* C12: a file strictly larger than the cap checked on its path (100MB in
\* transcribe_audio, 25MB in TranscriptionWorker.run) fails with the too-large error
\* before the remote transcription call; a file of exactly the cap passes the check
\* and, when nothing else is wrong with it, is submitted.
C12_TooLargeBeforeRemote ==
    /\ (TranscribeApplied /\ call.file.exists /\ call.file.is_file) =>
          /\ call.file.size > MAX_AUDIO_SIZE =>
                /\ call.res.outcome = "raise"
                /\ call.res.exc = Exc("ValueError", "too_large")
                /\ ~InSeq("whisper", call.res.log)
                /\ fs = call.before
          /\ call.file.size <= MAX_AUDIO_SIZE => call.res.exc # Exc("ValueError", "too_large")
          /\ (/\ call.file.size = MAX_AUDIO_SIZE /\ call.file.readable
              /\ Lower(call.file.name.suffix) \in valid_extensions)
                => InSeq("whisper", call.res.log)
    /\ (WorkerApplied /\ HasKey(environ) /\ call.file.exists) =>
          /\ call.file.size > GUI_MAX_SIZE =>
                /\ call.pre = Exc("ValueError", "too_large")
                /\ call.res.pc = "exiting"
                /\ call.res.emitted = <<"error">>
                /\ call.res.log = <<"precheck">>
          /\ call.file.size <= GUI_MAX_SIZE => call.pre # Exc("ValueError", "too_large")
          /\ (/\ call.file.size = GUI_MAX_SIZE /\ call.file.readable /\ call.file.is_file
              /\ call.online /\ Lower(call.file.name.suffix) \in valid_extensions)
                => call.res.pc = "inflight" /\ InSeq("whisper", call.res.log)

\* a worker given a file one byte over 25MB has reported the error without
\* reaching the remote call
C12_Witness ==
    /\ WorkerApplied
    /\ call.file.size = GUI_MAX_SIZE + 1
    /\ call.pre = Exc("ValueError", "too_large")
    /\ call.res.emitted = <<"error">>
    /\ ~InSeq("whisper", call.res.log)

(***************************************************************************)
(* More properties of the CLI command, checked under CliSpec.              *)
(***************************************************************************)
\* the command reached its try block, and the speech-to-text service was called
\* and answered
CliRemoteAnswered ==
    /\ cli.pc = "done"
    /\ cli.stage \in {"transcribe", "generate", "display", "save", "complete"}
    /\ cli.resp.ok

\* C13: no audio file larger than 25MB is ever submitted to the remote
\* speech-to-text service, here on the entry path of the CLI command.
C13_NoFileOver25MBSubmitted ==
    CliRemoteAnswered => cli.audio_path.size <= GUI_MAX_SIZE

Listed == call # NoCall /\ call.fn = "list_audio_files"

\* C14: list_audio_files returns, in lexicographic order and without duplicates,
\* exactly the files directly inside the audio directory whose extension is in the
\* allow-list; for an empty directory it returns the empty sequence.
C14_ListsExactlyAudioFiles ==
    Listed =>
        /\ {call.res[k] : k \in 1..Len(call.res)}
              = {f \in audio_dir : f.is_file /\ f.name.suffix \in valid_extensions}
        /\ \A j, k \in 1..Len(call.res) : j < k => NameLess(call.res[j].name, call.res[k].name)
        /\ audio_dir = {} => call.res = <<>>

(***************************************************************************)
(* More properties of the utils functions, checked under UtilSpec.         *)
(***************************************************************************)
\* C15: runs for two different source audio files never write to the same output
\* path: a transcript path written by a run was not written before by a run for
\* another source file.  (The transcript HTML names the source file it was made from.)
C15_DifferentSourcesNeverCollide ==
    (RemoteReturned /\ call.wr = AllOk
        /\ call.before[HtmlPath(call.file.name.stem)] \notin {Absent, Partial})
        => call.before[HtmlPath(call.file.name.stem)].file = call.file.name

(***************************************************************************)
(* More properties of one worker thread, checked under WorkerSpec.         *)
(***************************************************************************)
Called(w) == InSeq("whisper", w.log) \/ InSeq("chat", w.log)

\* C16: a remote transcription or completion call uses the credential and the model
\* that the API settings hold when the call is made, so that a call made after
\* set_api_key uses the newly saved credential and the newly selected model.
C16_CallsUseCurrentSettings ==
    \A i \in 1..Len(workers) :
        Called(workers[i]) => workers[i].credential = workers[i].configured

\* a worker whose run() has started
Ran(w) == w.log # <<>>

\* a worker that generate_notes can start: its transcript is a non-empty string
Startable(w) == w.kind = "N" => (w.transcript.kind = "str" /\ w.transcript.s # <<>>)

\* C17: a run that starts with no API credential configured fails with the
\* missing-credential error, having made no reachability probe and no remote call,
\* reported no progress and written no file.
C17_NoCredentialFailsFirst ==
    \A i \in 1..Len(workers) :
        (Ran(workers[i]) /\ Startable(workers[i]) /\ workers[i].configured = "")
            => /\ workers[i].failed_check = "no_api_key"
               /\ workers[i].exc = "ValueError"
               /\ workers[i].emitted = <<"error">>
               /\ workers[i].log = <<"precheck">>
               /\ ~isRunning(workers[i]) \/ workers[i].pc = "exiting"
               /\ fs = EmptyFs

C17_Witness ==
    \E i \in 1..Len(workers) :
        /\ Ran(workers[i]) /\ workers[i].configured = ""
        /\ workers[i].kind = "N" /\ Startable(workers[i])
        /\ workers[i].failed_check = "no_api_key"

(***************************************************************************)
(* More properties of the utils functions, checked under UtilSpec.         *)
(***************************************************************************)
Generated == call.fn = "generate_case_notes"

\* C18: generate_case_notes either returns both the note text and its HTML rendering
\* or raises and returns nothing; with the template file absent it raises
\* FileNotFoundError without calling the completion service; and a call that fails
\* writes no note file.
C18_NotesPairOrRaise ==
    Generated =>
        /\ call.res.outcome = "return"
              => /\ call.res.value.kind = "tuple"
                 /\ call.res.value.a = Str(call.resp.text)
                 /\ call.res.value.b.kind = "notes_html"
        /\ call.res.outcome = "raise"
              => /\ call.res.value = NoValue
                 /\ \A p \in NotePaths : fs[p] = call.before[p]
        /\ call.template = Absent
              => /\ call.res.outcome = "raise"
                 /\ call.res.exc.type = "FileNotFoundError"
                 /\ ~InSeq("chat", call.res.log)

C18_Witness ==
    /\ Generated /\ call.template = Absent
    /\ call.res.exc.type = "FileNotFoundError"
    /\ \E p \in NotePaths : call.before[p] # Absent

Failed == call # NoCall /\ call.res.outcome = "raise"

\* C19 as stated: a call that fails leaves every artifact written before it exactly
\* as it was.
C19_FailureAltersNoArtifact ==
    Failed => \A p \in Paths : call.before[p] # Absent => fs[p] = call.before[p]

\* C19: a failure alters no artifact but the file whose write failed, which may be
\* left empty or partial: when generate_case_notes or save_case_notes fails the
\* transcript files are exactly as they were, and when a later write of
\* transcribe_audio or save_case_notes fails the files that call had already written
\* are on disk with the content it wrote.
C19_FailureKeepsEarlierArtifacts ==
    /\ Failed => Cardinality({p \in Paths : fs[p] # call.before[p] /\ fs[p] = Partial}) <= 1
    /\ (Failed /\ call.fn \in {"generate_case_notes", "save_case_notes"})
          => \A p \in TranscriptPaths : fs[p] = call.before[p]
    /\ (Failed /\ call.fn = "transcribe_audio" /\ InSeq("write_raw", call.res.log))
          => fs[RawPath(call.file.name.stem)] = RawContent(call.resp.text)
    /\ (Failed /\ call.fn = "save_case_notes" /\ InSeq("write_notes_raw", call.res.log))
          => fs[NotesRawPath(call.stem)] = Str(call.notes)
    /\ (Failed /\ call.fn = "save_case_notes" /\ InSeq("write_notes_html", call.res.log))
          => fs[NotesHtmlPath(call.stem)] = NotesHtml(call.notes, GetModel(environ))

C19_Witness ==
    /\ Failed /\ call.fn = "save_case_notes" /\ InSeq("write_notes_html", call.res.log)
    /\ fs[NotesMdPath(call.stem)] = Partial
    /\ fs[RawPath(call.stem)] # Absent

(***************************************************************************)
(* More properties of the window, checked under GuiSpec.                   *)
(***************************************************************************)
\* the transcription worker whose finished signal carried the transcript of notes worker i
Source(i) == workers[workers[i].src]

\* C20: every NotesWorker is started on a non-empty transcript that the finished
\* signal of an earlier TranscriptionWorker delivered, whatever selections, errors
\* and cancellations came before and although process_error and cancel_operation
\* enable the Generate button.
C20_NotesOnlyFromTranscript ==
    \A i \in 1..Len(workers) :
        workers[i].kind = "N"
            => /\ workers[i].transcript.kind = "str" /\ workers[i].transcript.s # <<>>
               /\ workers[i].src \in 1..(i - 1)
               /\ Source(i).kind = "T"
               /\ InSeq("finished", Source(i).emitted)
               /\ Source(i).transcript = workers[i].transcript

C20_Witness ==
    \E i \in 1..Len(workers), j \in 1..Len(workers) :
        /\ j < i
        /\ workers[i].kind = "N"
        /\ workers[j].exc # "none" /\ InSeq("error", workers[j].emitted)
        /\ workers[i].src < j

(***************************************************************************)
(* The order of the steps inside one worker run, under WorkerSpec.         *)
(***************************************************************************)
\* the position of the first x in seq, 0 when there is none
FirstAt(x, seq) ==
    IF InSeq(x, seq) THEN CHOOSE k \in 1..Len(seq) : seq[k] = x /\ \A j \in 1..(k - 1) : seq[j] # x
    ELSE 0

RemoteCalls == {"whisper", "chat"}
WriteEvents == {"write_raw", "write_html", "write_notes_raw", "write_notes_html", "write_notes_md"}

\* C21: a worker makes its remote call only after its reachability probe has
\* succeeded; when the probe fails the run ends with a connection error signal, makes
\* no remote call and writes no artifact.
C21_ProbeBeforeRemoteCall ==
    \A i \in 1..Len(workers) :
        LET w == workers[i] IN
        /\ Called(w) => /\ w.probe = "ok"
                        /\ \A c \in RemoteCalls :
                              InSeq(c, w.log) => FirstAt("probe", w.log) \in 1..(FirstAt(c, w.log) - 1)
        /\ w.probe = "failed"
              => /\ w.exc = "ConnectionError"
                 /\ w.emitted[Len(w.emitted)] = "error"
                 /\ w.pc \in {"exiting", "done"}
                 /\ \A k \in 1..Len(w.log) : w.log[k] \notin RemoteCalls \cup WriteEvents
                 /\ fs = EmptyFs

C21_Witness ==
    \E i \in 1..Len(workers) :
        workers[i].kind = "N" /\ workers[i].probe = "failed" /\ workers[i].pc = "done"

\* a run that has raised is over: run() is returning or has returned
Terminal(w) == w.pc \in {"exiting", "done", "crashed"}

\* C22: one worker run calls the transcription service at most once and the
\* completion service at most once, and a run that has failed is over: it makes no
\* further step and no further remote call.
C22_OneRemoteCallPerRun ==
    /\ [](\A i \in 1..Len(workers) :
             /\ \A c \in RemoteCalls : Count(workers[i].log, c) <= 1
             /\ workers[i].exc # "none" => Terminal(workers[i]))
    /\ [][\A i \in 1..Len(workers) :
             workers[i].exc # "none"
                => /\ workers'[i].log = workers[i].log
                   /\ workers'[i].exc = workers[i].exc
                   /\ Terminal(workers'[i])]_vars

C22_Witness ==
    \E i \in 1..Len(workers) :
        /\ workers[i].exc = "OpenAIError" /\ Count(workers[i].log, "whisper") = 1
        /\ Terminal(workers[i])

\* lines 239, 254, 304, 312, 320: the percentage a progress signal carries
Percent(sig) ==
    CASE sig = "progress30" -> 30
      [] sig = "progress60" -> 60
      [] sig = "progress100" -> 100
      [] OTHER -> -1

\* the percentages a worker has reported, in order
Percents(emitted) ==
    LET ps == SelectSeq(emitted, LAMBDA m : Percent(m) # -1) IN
    [k \in 1..Len(ps) |-> Percent(ps[k])]

\* the last write of the stage a worker runs
LastWrite(w) == IF w.kind = "T" THEN "write_html" ELSE "write_notes_md"

Starts(kind) ==
    /\ Len(workers') = Len(workers) + 1
    /\ workers'[Len(workers')].kind = kind

\* C24: whenever transcribe_file starts a TranscriptionWorker, the file the worker
\* transcribes is the item selected in the file list at that moment.
C24_TranscribesSelectedItem ==
    [][Starts("T") => workers'[Len(workers')].file.name = gui.selected]_vars

\* C25: the stem a NotesWorker passes to save_case_notes is the stem of the audio
\* file whose transcription produced the transcript the worker was given.
C25_NotesSavedUnderSourceStem ==
    \A i \in 1..Len(workers) :
        (workers[i].kind = "N" /\ workers[i].src # 0)
            => workers[i].stem = Source(i).file.name.stem

\* this step delivers the oldest queued signal to its slot
Handles == queue # <<>> /\ queue' = Tail(queue)

\* C26: no finished or error signal of a worker that cancel_operation stopped is
\* handled by the window: once cancel_operation has returned, transcription_finished,
\* notes_finished and process_error never run for the cancelled worker.
C26_CancelledWorkerSignalsDropped ==
    [][Handles => ~workers[Head(queue).w].cancelled]_vars

(***************************************************************************)
(* The template written by the dialog and read back, under UtilSpec.       *)
(***************************************************************************)
\* C27: after TemplateDialog.save_template has saved a non-empty system prompt S, a
\* following load_template returns system_content equal to S and a user template
\* that contains the {{TRANSCRIPT}} placeholder.
C27_SavedPromptLoadsBack ==
    (call.fn = "load_template" /\ call.saved # NoValue)
        => /\ call.res.outcome = "return"
           /\ call.res.value.system_content = call.saved.s
           /\ Contains(call.res.value.user_template, PLACEHOLDER)

(***************************************************************************)
(* The model named in the note files, under WorkerSpec.                    *)
(***************************************************************************)
\* C28: the model identifier in the markdown note file a NotesWorker has written is
\* the one its completion request used and the one in the HTML note file, also when
\* set_api_key runs on the main thread between generation and saving.
C28_NoteFilesNameOneModel ==
    \A i \in 1..Len(workers) :
        (workers[i].kind = "N" /\ InSeq("write_notes_md", workers[i].log))
            => /\ fs[NotesMdPath(workers[i].stem)].model = workers[i].model
               /\ fs[NotesMdPath(workers[i].stem)].model = fs[NotesHtmlPath(workers[i].stem)].model

(***************************************************************************)
(* The interactive selection of the CLI, under CliSpec.                    *)
(***************************************************************************)
\* the command has asked for a number and taken the file at that index
Selected == "how" \in DOMAIN cli /\ cli.how = "prompt"

\* the command has asked for a number and rejected it
Rejected == cli.pc = "done" /\ cli.stage = "invalid_selection"

\* C29: with n files listed, an entered number k in 1..n selects the k-th listed
\* file, and every other number, 0 and the negative numbers included, is rejected
\* with exit code 1 and no file processed.
C29_SelectionInRange ==
    LET files == list_audio_files(audio_dir) IN
    /\ Selected => /\ cli.sel \in 1..Len(files)
                   /\ cli.audio_path = files[cli.sel]
    /\ Rejected => /\ cli.sel \notin 1..Len(files)
                   /\ cli.exit = 1
                   /\ fs = EmptyFs

(***************************************************************************)
(* Listing against validation, under ValidateSpec.                         *)
(***************************************************************************)
\* lines 75-76: the extension check of validate_audio_file
PassesExtensionCheck(f) == Lower(f.name.suffix) \in valid_extensions

\* C30: every file list_audio_files returns passes the extension check of
\* validate_audio_file, and every file of the audio directory that passes that check
\* is returned by list_audio_files.
C30_ListingAgreesWithValidation ==
    Listed =>
        /\ \A k \in 1..Len(call.res) : PassesExtensionCheck(call.res[k])
        /\ \A f \in audio_dir :
              (f.exists /\ f.is_file /\ PassesExtensionCheck(f)) => InSeq(f, call.res)

====
